---- MODULE Spec2Model ----
(***************************************************************************)
(* A model of the mkdocs "tags" plugin (src/tags/plugin.py): the           *)
(* front-matter extractor get_metadata, the two tag-index builders         *)
(* update_tags_dict and generate_tags_file, the sort done by               *)
(* generate_tags_page, and the controller's three lifecycle events         *)
(* on_config, on_files and on_page_markdown.                               *)
(*                                                                         *)
(* Python strings are TLA+ strings; a file is its text, newlines included. *)
(* A Python dict is the sequence of its items in insertion order.  A       *)
(* reference to a metadata record is its position in self.metadata.        *)
(***************************************************************************)
EXTENDS Integers, Sequences, FiniteSets, TLC

\* ------------------------------------------------------------------ bounds
\* Longest file list the host hands to on_files.
MaxFiles == 3
\* Number of builds (on_files events) run on one controller.
MaxRuns == 2
\* Longest file, in lines, of the extraction specification.
MaxLines == 4

\* ----------------------------------------------------------- Python strings
Char(s, i) == SubSeq(s, i, i)

Rest(s) == SubSeq(s, 2, Len(s))

\* The characters str.strip() removes, among those the inputs use.
Whitespace == {" ", "\n", "\t"}

RECURSIVE LStripChars(_, _)
\* str.lstrip(chars): drops every leading character that is in the set chars.
LStripChars(s, chars) ==
    IF Len(s) > 0 /\ Char(s, 1) \in chars
    THEN LStripChars(Rest(s), chars)
    ELSE s

RECURSIVE RStripChars(_, _)
RStripChars(s, chars) ==
    IF Len(s) > 0 /\ Char(s, Len(s)) \in chars
    THEN RStripChars(SubSeq(s, 1, Len(s) - 1), chars)
    ELSE s

\* str.strip()
Strip(s) == RStripChars(LStripChars(s, Whitespace), Whitespace)

\* str.startswith(p)
StartsWith(s, p) == Len(s) >= Len(p) /\ SubSeq(s, 1, Len(p)) = p

\* str.endswith(p)
EndsWith(s, p) == Len(s) >= Len(p) /\ SubSeq(s, Len(s) - Len(p) + 1, Len(s)) = p

LowerAlpha == "abcdefghijklmnopqrstuvwxyz"

UpperAlpha == "ABCDEFGHIJKLMNOPQRSTUVWXYZ"

Digits == "0123456789"

AlphaIndex(alpha, c) == CHOOSE i \in 1..Len(alpha) : Char(alpha, i) = c

LowerTable ==
    [c \in {Char(UpperAlpha, i) : i \in 1..Len(UpperAlpha)} |->
        Char(LowerAlpha, AlphaIndex(UpperAlpha, c))]

UpperTable ==
    [c \in {Char(LowerAlpha, i) : i \in 1..Len(LowerAlpha)} |->
        Char(UpperAlpha, AlphaIndex(LowerAlpha, c))]

LowerChar(c) == IF c \in DOMAIN LowerTable THEN LowerTable[c] ELSE c

UpperChar(c) == IF c \in DOMAIN UpperTable THEN UpperTable[c] ELSE c

RECURSIVE Lower(_)
\* str.lower()
Lower(s) == IF s = "" THEN "" ELSE LowerChar(Char(s, 1)) \o Lower(Rest(s))

\* str.capitalize(): first character upper-cased, the rest lower-cased.
Capitalize(s) == IF s = "" THEN "" ELSE UpperChar(Char(s, 1)) \o Lower(Rest(s))

RECURSIVE ReplaceChar(_, _, _)
\* str.replace(old, new) for one-character old and new.
ReplaceChar(s, old, new) ==
    IF s = "" THEN ""
    ELSE (IF Char(s, 1) = old THEN new ELSE Char(s, 1)) \o ReplaceChar(Rest(s), old, new)

\* Code points of the characters tag names use: digits, letters and a little
\* punctuation.
Punct == (" " :> 32) @@ ("-" :> 45) @@ ("." :> 46) @@ ("_" :> 95)

OrdTable ==
    [c \in {Char(Digits, i) : i \in 1..Len(Digits)} |-> 47 + AlphaIndex(Digits, c)]
    @@ [c \in {Char(UpperAlpha, i) : i \in 1..Len(UpperAlpha)} |->
           64 + AlphaIndex(UpperAlpha, c)]
    @@ [c \in {Char(LowerAlpha, i) : i \in 1..Len(LowerAlpha)} |->
           96 + AlphaIndex(LowerAlpha, c)]
    @@ Punct

\* ord(c)
Ord(c) == OrdTable[c]

RECURSIVE StrLess(_, _)
\* Python's a < b on strings: lexicographic by code point.
StrLess(a, b) ==
    IF b = "" THEN FALSE
    ELSE IF a = "" THEN TRUE
    ELSE IF Char(a, 1) = Char(b, 1) THEN StrLess(Rest(a), Rest(b))
    ELSE Ord(Char(a, 1)) < Ord(Char(b, 1))

RECURSIVE SplitLines(_)
\* Iterating a text file: its lines, each with its "\n" (the last may lack it).
SplitLines(text) ==
    IF text = "" THEN <<>>
    ELSE IF \E i \in 1..Len(text) : Char(text, i) = "\n"
         THEN LET n == CHOOSE i \in 1..Len(text) :
                          /\ Char(text, i) = "\n"
                          /\ \A j \in 1..(i - 1) : Char(text, j) # "\n"
              IN <<SubSeq(text, 1, n)>> \o SplitLines(SubSeq(text, n + 1, Len(text)))
         ELSE <<text>>

RECURSIVE SplitOn(_, _)
\* str.split(sep) for a one-character separator.
SplitOn(s, sep) ==
    IF \E i \in 1..Len(s) : Char(s, i) = sep
    THEN LET n == CHOOSE i \in 1..Len(s) :
                     /\ Char(s, i) = sep
                     /\ \A j \in 1..(i - 1) : Char(s, j) # sep
         IN <<SubSeq(s, 1, n - 1)>> \o SplitOn(SubSeq(s, n + 1, Len(s)), sep)
    ELSE <<s>>

\* ------------------------------------------------------------ YAML values
\* A loaded YAML value: t is its Python type ("null" is None), and the field
\* of that type holds it.
NullVal == [t |-> "null", i |-> 0, s |-> "", l |-> <<>>]

IntVal(n) == [t |-> "int", i |-> n, s |-> "", l |-> <<>>]

StrVal(str) == [t |-> "str", i |-> 0, s |-> str, l |-> <<>>]

ListVal(items) == [t |-> "list", i |-> 0, s |-> "", l |-> items]

IsDigits(s) ==
    /\ s # ""
    /\ \A i \in 1..Len(s) : \E d \in 1..Len(Digits) : Char(Digits, d) = Char(s, i)

RECURSIVE ParseInt(_)
ParseInt(s) ==
    IF s = "" THEN 0
    ELSE 10 * ParseInt(SubSeq(s, 1, Len(s) - 1))
         + (AlphaIndex(Digits, Char(s, Len(s))) - 1)

\* A plain scalar: nothing is null, digits are an int, the rest is a string.
YamlScalar(s) ==
    IF s = "" THEN NullVal
    ELSE IF IsDigits(s) THEN IntVal(ParseInt(s))
    ELSE StrVal(s)

RECURSIVE StripAll(_)
StripAll(items) ==
    IF items = <<>> THEN <<>>
    ELSE <<Strip(Head(items))>> \o StripAll(Tail(items))

\* The value after "key:": null, a flow sequence [a, b] of plain strings, or
\* a plain scalar.
YamlValue(s) ==
    IF StartsWith(s, "[") /\ EndsWith(s, "]")
    THEN LET inner == Strip(SubSeq(s, 2, Len(s) - 1))
         IN IF inner = "" THEN ListVal(<<>>)
            ELSE ListVal(StripAll(SplitOn(inner, ",")))
    ELSE YamlScalar(s)

\* The content lines of a YAML document: stripped, without the blank lines
\* and the comment lines.
YamlLines(text) ==
    SelectSeq(StripAll(SplitLines(text)),
              LAMBDA l : l # "" /\ ~StartsWith(l, "#"))

\* Position of the ":" ending a block-mapping key: a ":" followed by a space
\* or by the end of the line; 0 when the line has none.
ColonPos(l) ==
    LET hits == {i \in 2..Len(l) :
                    Char(l, i) = ":" /\ (i = Len(l) \/ Char(l, i + 1) = " ")}
    IN IF hits = {} THEN 0
       ELSE CHOOSE i \in hits : \A j \in hits : i <= j

NoMap == [k \in {} |-> NullVal]

RECURSIVE YamlMap(_)
\* The mapping of a sequence of "key: value" lines; a repeated key keeps its
\* last value.
YamlMap(lines) ==
    IF lines = <<>> THEN NoMap
    ELSE LET l == lines[Len(lines)]
             p == ColonPos(l)
         IN (Strip(SubSeq(l, 1, p - 1)) :> YamlValue(Strip(SubSeq(l, p + 1, Len(l)))))
            @@ YamlMap(SubSeq(lines, 1, Len(lines) - 1))

\* yaml.load(text, Loader=yaml.FullLoader) on the front-matter dialect: a
\* document of "key: value" lines is a mapping, a document with no content
\* is None, and a document with a line that is no mapping entry is either a
\* scalar or a syntax error ("invalid": no mapping comes out of it).
yaml_load(text) ==
    LET lines == YamlLines(text)
    IN IF lines = <<>> THEN [kind |-> "null", map |-> NoMap]
       ELSE IF \E i \in 1..Len(lines) : ColonPos(lines[i]) = 0
            THEN [kind |-> "invalid", map |-> NoMap]
            ELSE [kind |-> "map", map |-> YamlMap(lines)]

\* ------------------------------------------------------------ get_metadata
\* An optional string (None or a str).
NoTitle == [some |-> FALSE, s |-> ""]

SomeTitle(str) == [some |-> TRUE, s |-> str]

RECURSIVE extract_loop(_, _, _)
\* The loop of extract_yaml over the remaining lines, with the delimiter
\* counter c and the text captured so far.
extract_loop(lines, c, result) ==
    IF lines = <<>> THEN [text |-> result, title |-> NoTitle]
    ELSE LET line == Head(lines)
             sline == Strip(line)
         IN IF sline = "---"
            THEN extract_loop(Tail(lines), c + 1, result)
            ELSE IF c = 2 /\ sline # ""
            THEN [text |-> result,
                  title |-> IF StartsWith(sline, "# ")
                            THEN SomeTitle(LStripChars(sline, {"#", " "}))
                            ELSE NoTitle]
            ELSE IF c = 1
            THEN extract_loop(Tail(lines), c, result \o line)
            ELSE extract_loop(Tail(lines), c, result)

extract_yaml(text) == extract_loop(SplitLines(text), 0, "")

\* The title get_metadata gives a mapping without a title key.
default_title(name, title) ==
    LET t1 == IF ~title.some \/ title.s = ""
              THEN LET r == ReplaceChar(ReplaceChar(name, "-", " "), "_", " ")
                   IN SomeTitle(IF Lower(r) = r THEN Capitalize(r) ELSE r)
              ELSE title
    IN IF ~t1.some THEN "Untitled" ELSE t1.s

\* get_metadata(name, path) on a file whose text is text.  kind is "meta"
\* (a mapping is returned), "none" (None is returned) or "raise" (an
\* exception propagates: a YAML error, or .update on what is no mapping).
get_metadata(name, text) ==
    LET ex == extract_yaml(text)
    IN IF ex.text = "" THEN [kind |-> "none", meta |-> NoMap]
       ELSE LET loaded == yaml_load(ex.text)
            IN IF loaded.kind # "map" THEN [kind |-> "raise", meta |-> NoMap]
               ELSE LET m1 == ("filename" :> StrVal(name)) @@ loaded.map
                        m2 == IF "title" \notin DOMAIN m1
                              THEN ("title" :> StrVal(default_title(name, ex.title))) @@ m1
                              ELSE m1
                    IN [kind |-> "meta", meta |-> m2]

\* ------------------------------------------------------------- Python dicts
\* A dict of lists (defaultdict(list)): its items in insertion order, each a
\* key and the list of references appended under it.
DictKeys(d) == {d[i].tag : i \in 1..Len(d)}

\* Where the key tag is among the items of d.
KeyIndex(d, tag) == CHOOSE i \in 1..Len(d) : d[i].tag = tag

\* d[tag], for a key of d.
Bucket(d, tag) == d[KeyIndex(d, tag)].pages

\* dict_append as a builder that keeps a page once per bucket would do it.
dict_append_dedup(d, tag, ref) ==
    IF tag \in DictKeys(d)
    THEN LET i == KeyIndex(d, tag)
         IN IF \E j \in 1..Len(d[i].pages) : d[i].pages[j] = ref
            THEN d
            ELSE [d EXCEPT ![i].pages = Append(@, ref)]
    ELSE Append(d, [tag |-> tag, pages |-> <<ref>>])

\* d[tag].append(ref): a missing key is inserted last, with an empty list.
dict_append(d, tag, ref) ==
    IF tag \in DictKeys(d)
    THEN [d EXCEPT ![KeyIndex(d, tag)].pages = Append(@, ref)]
    ELSE Append(d, [tag |-> tag, pages |-> <<ref>>])

RECURSIVE append_all(_, _, _)
\* for tag in tags: d[tag].append(ref)
append_all(d, tags, ref) ==
    IF tags = <<>> THEN d
    ELSE append_all(dict_append(d, Head(tags), ref), Tail(tags), ref)

\* ---------------------------------------------------------- the tag indices
\* An element of self.metadata: None (some = FALSE) or a mapping.
NoneEntry == [some |-> FALSE, meta |-> NoMap]

MetaEntry(m) == [some |-> TRUE, meta |-> m]

RECURSIVE CharsOf(_)
CharsOf(s) == IF s = "" THEN <<>> ELSE <<Char(s, 1)>> \o CharsOf(Rest(s))

\* What "for tag in tags" iterates after e.get("tags", []), for the values a
\* front matter of the dialect gives the key: a list's items, a string's
\* characters, nothing for None and for a missing key.  (An int would make
\* len(tags) raise; no file of the tree declares one.)
tags_of(e) ==
    IF "tags" \notin DOMAIN e.meta THEN <<>>
    ELSE LET v == e.meta["tags"]
         IN IF v.t = "list" THEN v.l
            ELSE IF v.t = "str" THEN CharsOf(v.s)
            ELSE <<>>

RECURSIVE update_loop_gt1(_, _, _)
\* update_loop with the test len(tags) > 1 in place of len(tags) > 0.
update_loop_gt1(metadata, k, acc) ==
    IF k > Len(metadata) THEN acc
    ELSE LET e == metadata[k]
         IN IF ~e.some THEN update_loop_gt1(metadata, k + 1, acc)
            ELSE LET tags == tags_of(e)
                     has == ("tags" \in DOMAIN e.meta
                               => e.meta["tags"].t # "null") /\ Len(tags) > 1
                 IN update_loop_gt1(metadata, k + 1,
                      [dict |-> IF has THEN append_all(acc.dict, tags, k) ELSE acc.dict,
                       num_pages |-> acc.num_pages + 1,
                       pages_with_tags |-> acc.pages_with_tags + (IF has THEN 1 ELSE 0)])

RECURSIVE update_loop(_, _, _)
\* The loop of update_tags_dict from element k of self.metadata on; acc holds
\* tags_dict and the two counters.
update_loop(metadata, k, acc) ==
    IF k > Len(metadata) THEN acc
    ELSE LET e == metadata[k]
         IN IF ~e.some THEN update_loop(metadata, k + 1, acc)
            ELSE LET tags == tags_of(e)
                     has == ("tags" \in DOMAIN e.meta
                               => e.meta["tags"].t # "null") /\ Len(tags) > 0
                 IN update_loop(metadata, k + 1,
                      [dict |-> IF has THEN append_all(acc.dict, tags, k) ELSE acc.dict,
                       num_pages |-> acc.num_pages + 1,
                       pages_with_tags |-> acc.pages_with_tags + (IF has THEN 1 ELSE 0)])

\* update_tags_dict: the new self.tags_dict, built in the order of
\* self.metadata, and the counts it prints.
update_tags_dict(metadata) ==
    update_loop(metadata, 1, [dict |-> <<>>, num_pages |-> 0, pages_with_tags |-> 0])

\* The year an element without a year key is sorted by.
DefaultYear == 5000

\* year_key with 0 as the default year.
year_key_zero(e) ==
    IF ~e.some THEN 0
    ELSE IF "year" \in DOMAIN e.meta THEN e.meta["year"].i
    ELSE 0

\* The sort key of generate_tags_file: e.get("year", 5000) if e else 0.  The
\* years of the tree are ints (keys of mixed types would make sorted raise).
year_key(e) ==
    IF ~e.some THEN 0
    ELSE IF "year" \in DOMAIN e.meta THEN e.meta["year"].i
    ELSE DefaultYear

RECURSIVE insert_by_year(_, _, _)
\* x put into the sorted list s behind every element whose key is not greater.
insert_by_year(s, x, metadata) ==
    IF s = <<>> THEN <<x>>
    ELSE IF year_key(metadata[Head(s)]) > year_key(metadata[x])
         THEN <<x>> \o s
         ELSE <<Head(s)>> \o insert_by_year(Tail(s), x, metadata)

RECURSIVE sort_prefix(_, _)
sort_prefix(metadata, n) ==
    IF n = 0 THEN <<>>
    ELSE insert_by_year(sort_prefix(metadata, n - 1), n, metadata)

\* sorted(self.metadata, key=...): the references in ascending key order,
\* equal keys in their order in self.metadata (sorted is stable).
sorted_meta(metadata) == sort_prefix(metadata, Len(metadata))

RECURSIVE generate_loop(_, _, _)
\* The loop of generate_tags_file over the rest of sorted_meta; acc holds
\* tag_dict and self.metadata, whose elements the loop gives a title.
generate_loop(order, k, acc) ==
    IF k > Len(order) THEN acc
    ELSE LET r == order[k]
             e == acc.metadata[r]
         IN IF ~e.some THEN generate_loop(order, k + 1, acc)
            ELSE LET e1 == IF "title" \notin DOMAIN e.meta
                           THEN MetaEntry(("title" :> StrVal("Untitled")) @@ e.meta)
                           ELSE e
                 IN generate_loop(order, k + 1,
                      [dict |-> append_all(acc.dict, tags_of(e1), r),
                       metadata |-> [acc.metadata EXCEPT ![r] = e1]])

RECURSIVE insert_by_tag_cs(_, _)
\* insert_by_tag comparing the tags as they are, not lower-cased.
insert_by_tag_cs(s, x) ==
    IF s = <<>> THEN <<x>>
    ELSE IF StrLess(x.tag, Head(s).tag)
         THEN <<x>> \o s
         ELSE <<Head(s)>> \o insert_by_tag_cs(Tail(s), x)

RECURSIVE insert_by_tag(_, _)
\* The item x put into the sorted list s behind every item whose lower-cased
\* tag is not greater.
insert_by_tag(s, x) ==
    IF s = <<>> THEN <<x>>
    ELSE IF StrLess(Lower(x.tag), Lower(Head(s).tag))
         THEN <<x>> \o s
         ELSE <<Head(s)>> \o insert_by_tag(Tail(s), x)

RECURSIVE sort_items(_, _)
sort_items(data, n) ==
    IF n = 0 THEN <<>>
    ELSE insert_by_tag(sort_items(data, n - 1), data[n])

\* generate_tags_page: what the template is rendered with,
\* sorted(data.items(), key=lambda t: t[0].lower()).
generate_tags_page(data) == sort_items(data, Len(data))

\* generate_tags_file: the index built in year order, self.metadata after
\* the loop, and what is written to the tags file.
generate_tags_file(metadata) ==
    LET built == generate_loop(sorted_meta(metadata), 1,
                               [dict |-> <<>>, metadata |-> metadata])
    IN [tag_dict |-> built.dict,
        metadata |-> built.metadata,
        text |-> generate_tags_page(built.dict)]

\* ------------------------------------------------------------ the controller
\* Defaults of tags_filename and tags_folder.
TagsFilename == "tags.md"

TagsFolder == "generated"

HostFile(name) == [src_path |-> name, src_dir |-> "docs"]

\* The File on_files builds for the generated page.
NewFile == [src_path |-> TagsFilename, src_dir |-> TagsFolder]

\* files_after with the append outside the test of tags_create_target.
files_after_add_only(files_in, create, add) ==
    IF add THEN Append(files_in, NewFile) ELSE files_in

\* The host's collection after on_files: the tags file is appended when it
\* was created and tags_add_target is set.
files_after(files_in, create, add) ==
    IF create /\ add THEN Append(files_in, NewFile) ELSE files_in

\* The source tree (docs_dir): each file's text.
Docs ==
    ("a.md" :> "---\ntags: [x]\n---\ncontent\n")
    @@ ("b.md" :> "---\ntags: [X]\nyear: 1999\n---\n")
    @@ ("c.md" :> "---\ntags: [x, x]\nyear: 1999\n---\n")
    @@ ("d.md" :> "---\ntags: [a, B]\nyear: 1999\n---\n# My Page\ntext\n")
    @@ ("e.md" :> "---\ntitle:\ntags: [x]\nyear: 6000\n---\n")
    @@ ("f.md" :> "---\ntags: []\n---\n")
    @@ ("g.md" :> "---\ntags:\nyear: 1999\n---\n")
    @@ ("h.md" :> "---\nyear: 1999\n---\n")
    @@ ("i.md" :> "plain text\n")
    @@ ("j.md" :> "---\n\n---\n")
    @@ ("k.md" :> "---\ntags: [B, x]\n---\n")
    @@ ("logo.png" :> "")

\* The file lists the host can hand over: distinct files of the tree, in any
\* order.
FileLists ==
    UNION {{fs \in [1..n -> DOMAIN Docs] :
               \A i, j \in 1..n : i # j => fs[i] # fs[j]} : n \in 0..MaxFiles}

\* get_metadata on every file of the tree (the tree does not change).
read_docs == [name \in DOMAIN Docs |-> get_metadata(name, Docs[name])]

RECURSIVE scan_loop(_, _, _)
\* The scan of on_files from file k on: self.metadata with one element
\* appended per markdown file, until a file makes get_metadata raise.
scan_loop(fs, k, metadata) ==
    IF k > Len(fs) THEN [raised |-> FALSE, metadata |-> metadata]
    ELSE IF ~EndsWith(fs[k], ".md") THEN scan_loop(fs, k + 1, metadata)
    ELSE LET r == read_docs[fs[k]]
         IN IF r.kind = "raise" THEN [raised |-> TRUE, metadata |-> metadata]
            ELSE scan_loop(fs, k + 1,
                   Append(metadata, IF r.kind = "meta" THEN MetaEntry(r.meta)
                                    ELSE NoneEntry))

VARIABLES
    phase,               \* "start", "configured" or "discovered"
    status,              \* "ok", or "aborted" once an exception propagated
    runs,                \* on_files events so far
    src_files,           \* the source files the host discovers, in order
    files,               \* the host's file collection after on_files
    metadata,            \* self.metadata
    tags_dict,           \* self.tags_dict
    tag_dict,            \* the index generate_tags_file built last
    tags_file,           \* the tags file: whether written, and with what
    printed,             \* what nprint printed
    tags_add_target,     \* self.tags_add_target
    tags_create_target,  \* self.tags_create_target
    all_tags,            \* page.meta['all_tags'] of the page transformed last,
                         \* and the build (run) that attached it
    run1,                \* the controller as the first on_files left it
    ex_name, ex_text, ex_result, ex_done

ex_vars == <<ex_name, ex_text, ex_result, ex_done>>

ctl_vars == <<phase, status, runs, src_files, files, metadata, tags_dict, tag_dict,
              tags_file, printed, tags_add_target, tags_create_target, all_tags,
              run1>>

vars == <<ctl_vars, ex_vars>>

NoResult == [kind |-> "none", meta |-> NoMap]

Line(kind, a, b, c) ==
    [kind |-> kind, num_pages |-> a, pages_with_tags |-> b, total_tags |-> c]

\* The controller after __init__.
CtlInit ==
    /\ phase = "start"
    /\ status = "ok"
    /\ runs = 0
    /\ files = <<>>
    /\ metadata = <<>>
    /\ tags_dict = <<>>
    /\ tag_dict = <<>>
    /\ tags_file = [written |-> FALSE, tags |-> <<>>]
    /\ printed = <<>>
    /\ tags_add_target = TRUE
    /\ tags_create_target = TRUE
    /\ all_tags = [set |-> FALSE, run |-> 0, value |-> <<>>]
    /\ run1 = [set |-> FALSE, metadata |-> <<>>, tags_dict |-> <<>>,
               tag_dict |-> <<>>, tags_file |-> [written |-> FALSE, tags |-> <<>>]]

ExIdle ==
    /\ ex_name = ""
    /\ ex_text = ""
    /\ ex_result = NoResult
    /\ ex_done = FALSE

Init ==
    /\ CtlInit
    /\ src_files \in FileLists
    /\ ExIdle

\* on_config, for the two options that decide what on_files does.
on_config ==
    /\ phase = "start"
    /\ \E add \in BOOLEAN, create \in BOOLEAN :
        /\ tags_add_target' = add
        /\ tags_create_target' = create
        /\ printed' = IF add /\ ~create
                      THEN Append(printed, Line("warning", 0, 0, 0))
                      ELSE printed
    /\ phase' = "configured"
    /\ UNCHANGED <<status, runs, src_files, files, metadata, tags_dict, tag_dict,
                   tags_file, all_tags, run1, ex_vars>>

\* on_files, on the file list of one build.
on_files ==
    /\ phase \in {"configured", "discovered"}
    /\ status = "ok"
    /\ runs < MaxRuns
    /\ LET scan == scan_loop(src_files, 1, metadata)
           upd == update_tags_dict(scan.metadata)
           gen == generate_tags_file(scan.metadata)
       IN IF scan.raised
          THEN /\ status' = "aborted"
               /\ metadata' = scan.metadata
               /\ UNCHANGED <<phase, files, tags_dict, tag_dict, tags_file, printed,
                              run1>>
          ELSE /\ phase' = "discovered"
               /\ tags_dict' = upd.dict
               /\ printed' = Append(printed,
                                Line("summary", upd.num_pages, upd.pages_with_tags,
                                     Len(upd.dict)))
               /\ IF tags_create_target
                  THEN /\ metadata' = gen.metadata
                       /\ tag_dict' = gen.tag_dict
                       /\ tags_file' = [written |-> TRUE, tags |-> gen.text]
                  ELSE /\ metadata' = scan.metadata
                       /\ UNCHANGED <<tag_dict, tags_file>>
               /\ files' = files_after([i \in 1..Len(src_files) |-> HostFile(src_files[i])],
                                       tags_create_target, tags_add_target)
               /\ run1' = IF runs = 0
                          THEN [set |-> TRUE, metadata |-> metadata',
                                tags_dict |-> tags_dict', tag_dict |-> tag_dict',
                                tags_file |-> tags_file']
                          ELSE run1
               /\ UNCHANGED status
    /\ runs' = runs + 1
    /\ UNCHANGED <<src_files, tags_add_target, tags_create_target, all_tags, ex_vars>>

\* on_page_markdown, on any page of the build.
on_page_markdown ==
    /\ phase = "discovered"
    /\ status = "ok"
    /\ all_tags' = [set |-> TRUE, run |-> runs, value |-> tags_dict]
    /\ UNCHANGED <<phase, status, runs, src_files, files, metadata, tags_dict,
                   tag_dict, tags_file, printed, tags_add_target,
                   tags_create_target, run1, ex_vars>>

Next == on_config \/ on_files \/ on_page_markdown

Spec == Init /\ [][Next]_vars

\* -------------------------------------------------- the extraction harness
ExNames == {"foo-bar.md", "Foo_Bar.md"}

ExLines == {"---\n", "\n", "tags: [x]\n", "title: T\n", "# My Page\n",
            "content\n", " --- \n", "# # Sub\n"}

RECURSIVE Texts(_)
\* Every text of at most n lines of ExLines.
Texts(n) ==
    IF n = 0 THEN {""}
    ELSE LET shorter == Texts(n - 1)
         IN shorter \cup {t \o l : t \in shorter, l \in ExLines}

ExInit ==
    /\ CtlInit
    /\ src_files = <<>>
    /\ ex_name \in ExNames
    /\ ex_text \in Texts(MaxLines)
    /\ ex_result = NoResult
    /\ ex_done = FALSE

\* One call of get_metadata on the drawn file.
Extract ==
    /\ ~ex_done
    /\ ex_result' = get_metadata(ex_name, ex_text)
    /\ ex_done' = TRUE
    /\ UNCHANGED <<ex_name, ex_text, ctl_vars>>

ExNext == Extract

SpecExtract == ExInit /\ [][ExNext]_vars

\* ------------------------------------------------------------------ claims
Count(seq, x) == Cardinality({i \in 1..Len(seq) : seq[i] = x})

\* The tags list a metadata record declares: empty when the key is missing,
\* null or an empty list.
DeclaredTags(e) ==
    IF e.some /\ "tags" \in DOMAIN e.meta /\ e.meta["tags"].t = "list"
    THEN e.meta["tags"].l
    ELSE <<>>

PageOf(r) == metadata[r].meta["filename"].s

\* How often page P occurs in bucket T of the index d.
Occurrences(d, T, P) ==
    IF T \notin DictKeys(d) THEN 0
    ELSE LET b == Bucket(d, T)
         IN Cardinality({i \in 1..Len(b) : PageOf(b[i]) = P})

\* How often tag T occurs in the tags list of page P.
Declared(P, T) ==
    LET es == {k \in 1..Len(metadata) : metadata[k].some /\ PageOf(k) = P}
    IN IF es = {} THEN 0
       ELSE Count(DeclaredTags(metadata[CHOOSE k \in es : TRUE]), T)

TagUniverse ==
    DictKeys(tags_dict) \cup DictKeys(tag_dict)
    \cup UNION {{DeclaredTags(metadata[k])[i] : i \in 1..Len(DeclaredTags(metadata[k]))} :
                  k \in 1..Len(metadata)}

FirstRunDone == phase = "discovered" /\ runs = 1

\* C1: after the first on_files of a fresh controller, every scanned page P
\* occurs in bucket T exactly as often as T occurs in P's tags list (zero
\* times for pages without metadata or with absent, null or empty tags), in
\* self.tags_dict and in the index generate_tags_file renders.
C1_BucketCounts ==
    FirstRunDone =>
        \A n \in 1..Len(src_files) : \A T \in TagUniverse :
            /\ Occurrences(tags_dict, T, src_files[n]) = Declared(src_files[n], T)
            /\ tags_file.written =>
                 Occurrences(tag_dict, T, src_files[n]) = Declared(src_files[n], T)

\* A first build that scanned a page repeating a tag (twice in that bucket of
\* both indices), a page with an empty, null or absent tags list, and a file
\* without metadata.
C1_Witness ==
    /\ FirstRunDone
    /\ tags_file.written
    /\ \E n \in 1..Len(src_files) : \E T \in TagUniverse :
         /\ Declared(src_files[n], T) = 2
         /\ Occurrences(tags_dict, T, src_files[n]) = 2
         /\ Occurrences(tag_dict, T, src_files[n]) = 2
    /\ \E k \in 1..Len(metadata) : metadata[k].some /\ DeclaredTags(metadata[k]) = <<>>

\* C2: a second on_files on the same controller with the same file list
\* leaves the metadata store, both indices and the generated output as the
\* first run left them.
C2_Idempotent ==
    (phase = "discovered" /\ status = "ok" /\ runs = 2) =>
        /\ metadata = run1.metadata
        /\ tags_dict = run1.tags_dict
        /\ tag_dict = run1.tag_dict
        /\ tags_file = run1.tags_file

Position(out, tag) == CHOOSE i \in 1..Len(out) : out[i].tag = tag

\* The sequence handed to the template is sorted by lower-cased tag and holds
\* every key of the index once, with its casing and its bucket.
SortedByLower(out) ==
    \A i, j \in 1..Len(out) : i < j => ~StrLess(Lower(out[j].tag), Lower(out[i].tag))

EveryKeyOnce(out, data) ==
    /\ Len(out) = Len(data)
    /\ {out[i].tag : i \in 1..Len(out)} = DictKeys(data)
    /\ \A i, j \in 1..Len(out) : i # j => out[i].tag # out[j].tag
    /\ \A i \in 1..Len(out) : out[i].pages = Bucket(data, out[i].tag)

\* Tags that differ only in case are in the order the index got its keys.
TiesInKeyOrder(out, data) ==
    \A i, j \in 1..Len(out) :
        (i < j /\ Lower(out[i].tag) = Lower(out[j].tag))
            => Position(data, out[i].tag) < Position(data, out[j].tag)

\* A page tagged exactly [x] scanned before a page tagged exactly [X], and no
\* other page with either tag.
ScannedXThenX(p, q) ==
    /\ p < q
    /\ DeclaredTags(metadata[p]) = <<"x">>
    /\ DeclaredTags(metadata[q]) = <<"X">>
    /\ \A k \in 1..Len(metadata) :
         k \notin {p, q} => \A t \in {"x", "X"} : Count(DeclaredTags(metadata[k]), t) = 0

\* C3 as stated: sorted by lower-cased name, every key once, and for pages
\* tagged [x] and [X] scanned in that order "x" comes before "X".
C3_Original ==
    (FirstRunDone /\ tags_file.written) =>
        /\ SortedByLower(tags_file.tags)
        /\ EveryKeyOnce(tags_file.tags, tag_dict)
        /\ \A p, q \in 1..Len(metadata) :
             ScannedXThenX(p, q) =>
                Position(tags_file.tags, "x") < Position(tags_file.tags, "X")

\* C3 amended: sorted by lower-cased name, every key once with its casing,
\* tags differing only in case adjacent in the order the year-sorted index
\* got its keys: for pages tagged [x] and [X] scanned in that order, "x" then
\* "X" when the [x] page's year (5000 if absent) is not greater than the [X]
\* page's, and "X" then "x" when it is.
C3_SortedTags ==
    (FirstRunDone /\ tags_file.written) =>
        /\ SortedByLower(tags_file.tags)
        /\ EveryKeyOnce(tags_file.tags, tag_dict)
        /\ TiesInKeyOrder(tags_file.tags, tag_dict)
        /\ \A p, q \in 1..Len(metadata) :
             ScannedXThenX(p, q) =>
                LET yp == IF "year" \in DOMAIN metadata[p].meta
                          THEN metadata[p].meta["year"].i ELSE 5000
                    yq == IF "year" \in DOMAIN metadata[q].meta
                          THEN metadata[q].meta["year"].i ELSE 5000
                    px == Position(tags_file.tags, "x")
                    pX == Position(tags_file.tags, "X")
                IN IF yp <= yq THEN pX = px + 1 ELSE px = pX + 1

\* A build whose pages [x] and [X], scanned in that order, are rendered "X"
\* then "x", next to tags whose lower-cased order differs from their
\* code-point order (a, B).
C3_Witness ==
    /\ FirstRunDone
    /\ tags_file.written
    /\ \E p, q \in 1..Len(metadata) :
         /\ ScannedXThenX(p, q)
         /\ Position(tags_file.tags, "X") < Position(tags_file.tags, "x")
    /\ {"a", "B"} \subseteq DictKeys(tag_dict)

HostFiles == [i \in 1..Len(src_files) |-> HostFile(src_files[i])]

\* C6: on_files registers the generated file (appends it, once) exactly when
\* tags_create_target and tags_add_target are both set; with
\* tags_add_target set and tags_create_target not, on_config prints the
\* warning, the build goes on, no tags file is written and nothing is
\* registered.
C6_Registration ==
    /\ phase = "discovered" =>
         /\ Count(files, NewFile) = IF tags_create_target /\ tags_add_target THEN 1 ELSE 0
         /\ files = IF tags_create_target /\ tags_add_target
                    THEN Append(HostFiles, NewFile) ELSE HostFiles
    /\ (phase # "start" /\ tags_add_target /\ ~tags_create_target) =>
         /\ Count(printed, Line("warning", 0, 0, 0)) = 1
         /\ ~tags_file.written
         /\ Count(files, NewFile) = 0
         /\ (phase = "configured" /\ runs = 0) => status = "ok"

\* A completed build configured to add but not to create a target: warned,
\* nothing written, nothing registered.
C6_Witness ==
    /\ phase = "discovered"
    /\ tags_add_target /\ ~tags_create_target
    /\ Len(src_files) > 0
    /\ files = HostFiles
    /\ Count(printed, Line("warning", 0, 0, 0)) = 1

TitleSet(r) ==
    /\ "title" \in DOMAIN metadata[r].meta
    /\ metadata[r].meta["title"].t = "str"
    /\ metadata[r].meta["title"].s # ""

AllTitled(d) ==
    \A i \in 1..Len(d) : \A j \in 1..Len(d[i].pages) : TitleSet(d[i].pages[j])

\* C7: every page in a bucket of the rendered index, or of the index exposed
\* as all_tags, has a title that is set and not null.
C7_TitlePopulated ==
    /\ tags_file.written => AllTitled(tag_dict)
    /\ all_tags.set => AllTitled(all_tags.value)

SameBag(s1, s2) ==
    \A r \in 1..Len(metadata) : Count(s1, r) = Count(s2, r)

SameIndex(d1, d2) ==
    /\ DictKeys(d1) = DictKeys(d2)
    /\ \A T \in DictKeys(d1) : SameBag(Bucket(d1, T), Bucket(d2, T))

\* C8: after on_files with generation enabled, the index on_page_markdown
\* attaches as all_tags and the index rendered into the tags page have the
\* same keys and, per tag, the same multiset of page references.
C8_SameIndex ==
    /\ (phase = "discovered" /\ tags_create_target) => SameIndex(tags_dict, tag_dict)
    /\ (all_tags.set /\ all_tags.run = runs /\ status = "ok" /\ tags_create_target) =>
         SameIndex(all_tags.value, tag_dict)

\* A page transformed in a build whose two indices order a bucket
\* differently.
C8_Witness ==
    /\ all_tags.set /\ all_tags.run = runs /\ status = "ok" /\ tags_create_target
    /\ \E T \in DictKeys(tag_dict) :
         /\ Len(Bucket(tag_dict, T)) > 1
         /\ Bucket(all_tags.value, T) # Bucket(tag_dict, T)

HasYear(r) == "year" \in DOMAIN metadata[r].meta

YearOf(r) == metadata[r].meta["year"].i

\* C9 as stated: in every bucket of the rendered index the years ascend,
\* pages without a year come after every page with one, and pages with equal
\* year, or both without, keep their discovery order.
C9_Original ==
    tags_file.written =>
        \A t \in 1..Len(tag_dict) :
            LET b == tag_dict[t].pages
            IN \A i, j \in 1..Len(b) : i < j =>
                 /\ (HasYear(b[i]) /\ HasYear(b[j])) => YearOf(b[i]) <= YearOf(b[j])
                 /\ ~(~HasYear(b[i]) /\ HasYear(b[j]))
                 /\ ((HasYear(b[i]) /\ HasYear(b[j]) /\ YearOf(b[i]) = YearOf(b[j]))
                      \/ (~HasYear(b[i]) /\ ~HasYear(b[j]))) => b[i] <= b[j]

Year5000(r) == IF HasYear(r) THEN YearOf(r) ELSE 5000

\* C9 amended: in every bucket of the rendered index the pages ascend by
\* year with an absent year counted as 5000 (so a page without a year comes
\* after every page whose year is below 5000 and before every page whose
\* year is above it), and pages with equal keys keep their discovery order.
C9_YearOrder ==
    tags_file.written =>
        \A t \in 1..Len(tag_dict) :
            LET b == tag_dict[t].pages
            IN \A i, j \in 1..Len(b) : i < j =>
                 /\ Year5000(b[i]) <= Year5000(b[j])
                 /\ Year5000(b[i]) = Year5000(b[j]) => b[i] <= b[j]

\* A bucket that holds, in this order, a page of a year below 5000, a page
\* without a year and a page of a year above 5000, the last one scanned
\* first.
C9_Witness ==
    /\ tags_file.written
    /\ \E t \in 1..Len(tag_dict) :
         LET b == tag_dict[t].pages
         IN \E i, j, k \in 1..Len(b) :
              /\ i < j /\ j < k
              /\ HasYear(b[i]) /\ YearOf(b[i]) < 5000
              /\ ~HasYear(b[j])
              /\ HasYear(b[k]) /\ YearOf(b[k]) > 5000
              /\ b[k] < b[i]

\* The lines of the drawn file, stripped.
ExSlines == StripAll(SplitLines(ex_text))

\* Its delimiter lines.
DelimLines == {i \in 1..Len(ExSlines) : ExSlines[i] = "---"}

\* The n-th delimiter line, 0 when there are fewer.
Delim(n) ==
    LET hits == {i \in DelimLines : Cardinality({j \in DelimLines : j <= i}) = n}
    IN IF hits = {} THEN 0 ELSE CHOOSE i \in hits : TRUE

\* The first non-blank line after the second delimiter, "" when there is none.
FirstAfterBlock ==
    LET later == {i \in (Delim(2) + 1)..Len(ExSlines) : ExSlines[i] # ""}
    IN IF Delim(2) = 0 \/ later = {} THEN ""
       ELSE ExSlines[CHOOSE i \in later : \A j \in later : i <= j]

\* The title the claim derives from a file name: the name without its
\* markdown extension ("foo-bar.md" gives "Foo bar"), '-' and '_' replaced by
\* spaces, capitalized only if all lower-case.
ClaimedNameTitle(name) ==
    LET stem == IF EndsWith(name, ".md") THEN SubSeq(name, 1, Len(name) - 3) ELSE name
        r == ReplaceChar(ReplaceChar(stem, "-", " "), "_", " ")
    IN IF r = "" THEN "Untitled"
       ELSE IF Lower(r) = r THEN Capitalize(r) ELSE r

\* C4: a front-matter mapping without a title key gets the H1 heading that
\* is the first non-blank line after the second delimiter (the line without
\* its leading "# "), else the title derived from the file name
\* (foo-bar.md: "Foo bar"), else "Untitled".
C4_DefaultTitle ==
    (/\ ex_done
     /\ ex_result.kind = "meta"
     /\ "title" \notin DOMAIN yaml_load(extract_yaml(ex_text).text).map) =>
        ex_result.meta["title"] =
            StrVal(IF StartsWith(FirstAfterBlock, "# ")
                   THEN SubSeq(FirstAfterBlock, 3, Len(FirstAfterBlock))
                   ELSE ClaimedNameTitle(ex_name))

\* C5: a file whose delimiter counter stays below 2 (no "---" line, or one)
\* yields no metadata, and no error.
C5_NoSecondDelimiter ==
    (ex_done /\ Cardinality(DelimLines) < 2) => ex_result.kind = "none"

\* C10: a file whose front-matter block holds nothing, or only blank lines,
\* yields no metadata, and no error.
C10_EmptyBlock ==
    (/\ ex_done
     /\ Cardinality(DelimLines) >= 2
     /\ \A i \in (Delim(1) + 1)..(Delim(2) - 1) : ExSlines[i] = "") =>
        ex_result.kind = "none"

====
